---- MODULE Spec2Model ----
(***************************************************************************)
(* psst.model: build_model (assembly of the unit-commitment model from the *)
(* case tables) and PSSTModel.solve (the MIP solve followed by the optional*)
(* fix-and-resolve phase).                                                 *)
(*                                                                         *)
(* Python None is the empty sequence, a present value v is <<v>>.          *)
(* Floating-point quantities are exact rationals: a numerator over a       *)
(* denominator that is carried beside it.                                  *)
(***************************************************************************)
EXTENDS Integers, Sequences, FiniteSets, TLC

VARIABLES
    config,                       \* the caller's configuration dict (passed by reference)
    configArg,                    \* what the caller passes as config=: "none", "shared", "fresh"
    generator_df,                 \* generator table: generator -> row
    load_df,                      \* load table: [index: period labels, demand: per-period total]
    previous_unit_commitment_df,  \* None, or [index: period labels, cols: generator -> 0/1 trace]
    factors,                      \* reserve_factor, regulating_reserve_factor, flexible_ramp_factor
    builds,                       \* outcome of every build_model call so far, oldest first
    pc,                           \* position of the caller / of the running solve() call
    UnitOn,                       \* model.UnitOn[g,t].value (None until a solver loads one)
    fixed,                        \* model.UnitOn[g,t].fixed
    active,                       \* active flag of each min-up/down-time constraint group
    status,                       \* PSSTModel._status
    results,                      \* PSSTModel._results: number of the call that set it, 0 = None
    call,                         \* the running (or last) solve() call: arguments and bookkeeping
    ncalls,                       \* number of solve() calls started on the handle
    nresolves                     \* number of times the fixing loop has run on the handle

vars == <<config, configArg, generator_df, load_df, previous_unit_commitment_df,
          factors, builds, pc, UnitOn, fixed, active, status, results, call, ncalls,
          nresolves>>

buildInputs == <<configArg, generator_df, load_df, previous_unit_commitment_df, factors>>
handleVars == <<UnitOn, fixed, active, status, results, call, ncalls, nresolves>>

(***************************************************************************)
(* Bounds of the model.                                                    *)
(***************************************************************************)
NumGenerators == 2
MaxPeriods == 4
MaxSegments == 3
MaxPower == 1
MaxNCost == 3
MaxFactor == 2
MaxDemand == 2
MaxBuilds == 2
MaxCalls == 2

(***************************************************************************)
(* Program constants.                                                      *)
(***************************************************************************)
DefaultSegments == 2
SmallIncrement == 1
LinearPoints == 2
FixedCostDenominator == 100

None == <<>>
Some(v) == <<v>>

Generators == 1..NumGenerators

Min(S) == CHOOSE x \in S : \A y \in S : x <= y

(***************************************************************************)
(* Configuration: config.pop(key, default) on a dict.                      *)
(***************************************************************************)
ConfigKeys == {"use_ptdf", "segments", "has_global_reserves", "resolve", "market_type"}

Pop(c, k, d) == IF k \in DOMAIN c THEN c[k] ELSE d

EmptyDict == [k \in {} |-> 0]

\* The dict the function body works on: a new empty one when config is None,
\* otherwise the caller's object (for "fresh" the caller's newly made equal copy).
ConfigInCall(arg, c) == IF arg = "none" THEN EmptyDict ELSE c

\* The five pops of the configuration section, in order.
ReadConfig(c) ==
    [use_ptdf            |-> Pop(c, "use_ptdf", FALSE),
     segments            |-> Pop(c, "segments", DefaultSegments),
     has_global_reserves |-> Pop(c, "has_global_reserves", TRUE),
     resolve             |-> Pop(c, "resolve", FALSE),
     market_type         |-> Pop(c, "market_type", "day_ahead")]

\* The dict after the pops: every recognised key is removed from it.
ConfigAfterPops(c) == [k \in DOMAIN c \ ConfigKeys |-> c[k]]

\* What the caller's dict holds after the call.
CallerConfigAfter(arg, c) == IF arg = "shared" THEN ConfigAfterPops(c) ELSE c

(***************************************************************************)
(* Reserve factors: the three None checks.                                 *)
(***************************************************************************)
DefaultFactors(f) ==
    LET f1 == IF f.reserve_factor = None
              THEN [f EXCEPT !.reserve_factor = Some(0)] ELSE f
        f2 == IF f1.regulating_reserve_factor = None
              THEN [f1 EXCEPT !.reserve_factor = Some(0)] ELSE f1
        f3 == IF f2.flexible_ramp_factor = None
              THEN [f2 EXCEPT !.flexible_ramp_factor = Some(0)] ELSE f2
    IN f3

\* initialize_global_reserves: requirement[t] = reserve_factor * total demand at t
\* (factor in percent, so the requirement is in hundredths of the demand unit).
SpinningRequirement(rf, demand) == [t \in DOMAIN demand |-> rf * demand[t]]

(***************************************************************************)
(* Initial on/off state from the prior commitment trace.                   *)
(***************************************************************************)
\* The all-zero trace used when no prior commitment is supplied; it takes the
\* load table's index.
DefaultPreviousCommitment(load) ==
    [index |-> load.index,
     cols  |-> [g \in Generators |-> [i \in 1..Len(load.index) |-> 0]]]

\* Positions of the nonzero entries of the column's diff(); position 1 is the
\* NaN row that dropna() removes.
Transitions(col) == {i \in 2..Len(col) : col[i] - col[i-1] # 0}

Max(S) == CHOOSE x \in S : \A y \in S : x >= y

\* check_row as [label, value]: the first row of the trace when the diff has no
\* nonzero entry, else the last nonzero diff.
CheckRow(index, col) ==
    IF Transitions(col) = {}
    THEN [label |-> index[1], value |-> col[1]]
    ELSE LET i == Max(Transitions(col))
         IN [label |-> index[i], value |-> col[i] - col[i-1]]

\* Variant: a trace that is off throughout is not recognised as off.
InitialStateOf_IgnoresZero(index, col, nload) ==
    LET r == CheckRow(index, col)
    IN IF r.value = -1
       THEN -1 * (nload - r.label)
       ELSE nload - r.label

InitialStateOf(index, col, nload) ==
    LET r == CheckRow(index, col)
    IN IF r.value = -1 \/ r.value = 0
       THEN -1 * (nload - r.label)
       ELSE nload - r.label

InitialStateDict(prev, load) ==
    LET df == IF prev = None THEN DefaultPreviousCommitment(load) ELSE prev[1]
    IN [g \in Generators |-> InitialStateOf(df.index, df.cols[g], Len(load.index))]

(***************************************************************************)
(* Piecewise cost curves.                                                  *)
(***************************************************************************)
\* numpy.linspace(a, b, num) for num >= 0: the points as numerators over den.
Linspace(a, b, num) ==
    IF num <= 0 THEN [den |-> 1, pts |-> <<>>]
    ELSE IF num = 1 THEN [den |-> 1, pts |-> <<a>>]
    ELSE [den |-> num - 1,
          pts |-> [k \in 1..num |-> a * (num - 1) + (k - 1) * (b - a)]]

\* COST_n of a row (columns are numbered from 0).
Cost(g, n) == g.COST[n + 1]

\* Variant: the polynomial branch has no final else.
RowRaises_NoElse(g) == g.MODEL = 1 /\ g.NCOST = 1

\* The row raises inside the per-generator loop.
RowRaises(g) ==
    \/ g.MODEL = 2 /\ g.NCOST \notin {2, 3}
    \/ g.MODEL = 1 /\ g.NCOST = 1

RowError(i, g) ==
    IF g.MODEL = 2
    THEN [type |-> "NotImplementedError", msg |-> [ncost |-> g.NCOST]]
    ELSE [type |-> "AssertionError", msg |-> [generator |-> i, ncost |-> g.NCOST]]

\* points[i], values[i] of a row that does not raise: points over pden, values over vden.
Curve(g, segments) ==
    IF g.MODEL = 2 /\ g.NCOST = 2 THEN
        LET inc == IF g.PMIN = g.PMAX THEN SmallIncrement ELSE 0
            l == Linspace(g.PMIN, g.PMAX + inc, LinearPoints)
        IN [pden |-> l.den, points |-> l.pts, vden |-> l.den,
            values |-> [k \in DOMAIN l.pts |-> Cost(g, 0) * l.den + Cost(g, 1) * l.pts[k]]]
    ELSE IF g.MODEL = 2 THEN
        LET l == Linspace(g.PMIN, g.PMAX, segments)
        IN [pden |-> l.den, points |-> l.pts, vden |-> l.den * l.den,
            values |-> [k \in DOMAIN l.pts |->
                          Cost(g, 0) * l.den * l.den + Cost(g, 1) * l.pts[k] * l.den
                          + Cost(g, 2) * l.pts[k] * l.pts[k]]]
    ELSE IF g.MODEL = 1 THEN
        [pden |-> 1, points |-> [n \in 1..g.NCOST |-> Cost(g, 2 * (n - 1))],
         vden |-> 1, values |-> [n \in 1..g.NCOST |-> Cost(g, 2 * (n - 1) + 1)]]
    ELSE
        [pden |-> 1, points |-> <<0, g.PMAX>>,
         vden |-> FixedCostDenominator, values |-> <<0, 1>>]

\* The cost section: None when it completes, else the error it raises. The
\* per-generator loop runs in row order and stops at the first row that raises;
\* the length assertions run after the loop, in the dict's insertion order.
CostError(df, segments) ==
    LET bad == {i \in Generators : RowRaises(df[i])}
        short == {i \in Generators : Len(Curve(df[i], segments).points) < 2}
        shortv == {i \in Generators : Len(Curve(df[i], segments).values) < 2}
    IN IF bad # {} THEN Some(RowError(Min(bad), df[Min(bad)]))
       ELSE IF short # {}
       THEN Some([type |-> "AssertionError",
                  msg |-> [genco |-> Min(short),
                           points |-> Curve(df[Min(short)], segments).points]])
       ELSE IF shortv # {}
       THEN Some([type |-> "AssertionError",
                  msg |-> [genco |-> Min(shortv),
                           values |-> Curve(df[Min(shortv)], segments).values]])
       ELSE None

MarketTypes == {"day_ahead", "hourly_ahead", "real_time"}

MarketError(market_type) ==
    IF market_type \in MarketTypes THEN None
    ELSE Some([type |-> "NotImplementedError", msg |-> [market_type |-> market_type]])

(***************************************************************************)
(* build_model as a whole: the outcome of one call.                        *)
(***************************************************************************)
BuildOutcome(arg, c, df, load, prev, f) ==
    LET opt == ReadConfig(ConfigInCall(arg, c))
        handed == DefaultFactors(f)
        cerr == CostError(df, opt.segments)
        merr == MarketError(opt.market_type)
        err == IF cerr # None THEN cerr ELSE merr
    IN [ok            |-> err = None,
        error         |-> err,
        options       |-> opt,
        handed        |-> handed,
        initial_state |-> InitialStateDict(prev, load),
        curves        |-> IF cerr = None
                          THEN Some([g \in Generators |-> Curve(df[g], opt.segments)])
                          ELSE None,
        requirement   |-> SpinningRequirement(handed.reserve_factor[1], load.demand),
        up_down_resolve |-> opt.resolve]

(***************************************************************************)
(* The model object the handle wraps, and the external solver.             *)
(***************************************************************************)
Periods == {load_df.index[i] : i \in DOMAIN load_df.index}

Commitments == Generators \X Periods

UpDownGroups == {"EnforceUpTimeConstraintsInitial", "EnforceUpTimeConstraintsSubsequent",
                 "EnforceDownTimeConstraintsInitial", "EnforceDownTimeConstraintsSubsequent"}

\* A value a solver reports: a whole part and a fractional part. A binary
\* variable is reported as exactly 0 or 1.
SolverFractions == {0}
BinaryValues == {[whole |-> b, frac |-> f] : b \in {0, 1}, f \in SolverFractions}

\* float(v) of a reported value, then int(): the fractional part is dropped.
PyFloat(v) == v
PyInt(v) == [whole |-> v.whole, frac |-> 0]

\* The solutions a successful solve may load: every variable gets a value, a
\* fixed variable keeps the value it was fixed to.
Solutions == {s \in [Commitments -> BinaryValues] :
                 \A gt \in Commitments : fixed[gt] => Some(s[gt]) = UnitOn[gt]}

\* PSSTResults.unit_commitment: the period x generator table of UnitOn values.
UnitCommitment == UnitOn

NoCall == [solver |-> "glpk", resolve_arg |-> FALSE, resolve |-> FALSE, mip |-> 0, lp |-> 0,
           mip_ok |-> FALSE, lp_ok |-> FALSE, raised |-> FALSE, returned |-> FALSE,
           mip_solution |-> None, fixed_at_entry |-> None, active_at_entry |-> None]

Solvers == {"glpk", "xpress"}

(***************************************************************************)
(* build_model: one call, with the arguments the caller holds.             *)
(***************************************************************************)
\* PSSTModel.__init__ on a newly assembled model.
NewHandle ==
    /\ pc' = "idle"
    /\ UnitOn' = [gt \in Commitments |-> None]
    /\ fixed' = [gt \in Commitments |-> FALSE]
    /\ active' = [c \in UpDownGroups |-> TRUE]
    /\ status' = "None"
    /\ results' = 0
    /\ call' = NoCall
    /\ ncalls' = 0
    /\ nresolves' = 0

BuildModel ==
    /\ pc \in {"nohandle", "idle"}
    /\ Len(builds) < MaxBuilds
    /\ LET out == BuildOutcome(configArg, config, generator_df, load_df,
                               previous_unit_commitment_df, factors)
       IN /\ builds' = Append(builds, out)
          /\ config' = CallerConfigAfter(configArg, config)
          /\ IF out.ok THEN NewHandle ELSE UNCHANGED <<pc, handleVars>>
    /\ UNCHANGED buildInputs

(***************************************************************************)
(* PSSTModel.solve, step by step.                                          *)
(***************************************************************************)
SolveCall(solver, resolve) ==
    /\ pc = "idle"
    /\ ncalls < MaxCalls
    /\ ncalls' = ncalls + 1
    /\ call' = [NoCall EXCEPT !.solver = solver, !.resolve_arg = resolve, !.resolve = resolve,
                              !.fixed_at_entry = Some(fixed), !.active_at_entry = Some(active)]
    /\ pc' = "mip"
    /\ UNCHANGED <<config, buildInputs, builds, UnitOn, fixed, active, status, results, nresolves>>

\* Variant: the resolve override is not under the xpress test.
ResolvePhase_Unconditional(solver, resolve) == TRUE

\* The resolve phase runs when asked for, and always for xpress.
ResolvePhase(solver, resolve) == (solver = "xpress") \/ resolve

\* Variant: a failed submission is tried again.
AfterFailure_Retry == "mip"

\* Where control goes when solve_model raises: out of solve(), to the caller.
AfterFailure == "idle"

\* The first solve_model call succeeds: values are loaded, the results object
\* is replaced, and xpress forces the resolve phase.
MipSolved ==
    /\ pc = "mip"
    /\ \E s \in Solutions :
         /\ UnitOn' = [gt \in Commitments |-> Some(s[gt])]
         /\ call' = [call EXCEPT !.mip = @ + 1, !.mip_ok = TRUE, !.mip_solution = Some(s),
                                 !.resolve = ResolvePhase(call.solver, @)]
    /\ results' = ncalls
    /\ pc' = IF call'.resolve THEN "fix" ELSE "finish"
    /\ UNCHANGED <<config, buildInputs, builds, fixed, active, status, ncalls, nresolves>>

\* The first solve_model call raises: the exception leaves solve().
MipFailed ==
    /\ pc = "mip"
    /\ call' = [call EXCEPT !.mip = @ + 1, !.raised = TRUE]
    /\ pc' = AfterFailure
    /\ UNCHANGED <<config, buildInputs, builds, UnitOn, fixed, active, status, results, ncalls, nresolves>>

\* Variant: the loop tests the value's truth instead of its nullness.
FixedAfterLoop_SkipsOff(uc) ==
    [gt \in Commitments |-> IF uc[gt] # None /\ uc[gt][1].whole # 0 THEN TRUE ELSE fixed[gt]]

\* The loop over results.unit_commitment: every non-null entry fixes its variable.
FixedAfterLoop(uc) == [gt \in Commitments |-> IF uc[gt] # None THEN TRUE ELSE fixed[gt]]

ValuesAfterLoop(uc) ==
    [gt \in Commitments |-> IF uc[gt] # None THEN Some(PyInt(PyFloat(uc[gt][1]))) ELSE UnitOn[gt]]

FixCommitment ==
    /\ pc = "fix"
    /\ fixed' = FixedAfterLoop(UnitCommitment)
    /\ UnitOn' = ValuesAfterLoop(UnitCommitment)
    /\ pc' = "deactivate"
    /\ nresolves' = nresolves + 1
    /\ UNCHANGED <<config, buildInputs, builds, active, status, results, call, ncalls>>

ActiveAfterDeactivate == [c \in UpDownGroups |-> FALSE]

DeactivateUpDown ==
    /\ pc = "deactivate"
    /\ active' = ActiveAfterDeactivate
    /\ pc' = "lp"
    /\ UNCHANGED <<config, buildInputs, builds, UnitOn, fixed, status, results, call, ncalls, nresolves>>

\* The second solve_model call (is_mip=False) succeeds.
LpSolved ==
    /\ pc = "lp"
    /\ \E s \in Solutions : UnitOn' = [gt \in Commitments |-> Some(s[gt])]
    /\ call' = [call EXCEPT !.lp = @ + 1, !.lp_ok = TRUE]
    /\ results' = ncalls
    /\ pc' = "finish"
    /\ UNCHANGED <<config, buildInputs, builds, fixed, active, status, ncalls, nresolves>>

\* The second solve_model call raises.
LpFailed ==
    /\ pc = "lp"
    /\ call' = [call EXCEPT !.lp = @ + 1, !.raised = TRUE]
    /\ pc' = AfterFailure
    /\ UNCHANGED <<config, buildInputs, builds, UnitOn, fixed, active, status, results, ncalls, nresolves>>

StatusAtReturn == "solved"

Finish ==
    /\ pc = "finish"
    /\ status' = StatusAtReturn
    /\ call' = [call EXCEPT !.returned = TRUE]
    /\ pc' = "idle"
    /\ UNCHANGED <<config, buildInputs, builds, UnitOn, fixed, active, results, ncalls, nresolves>>

(***************************************************************************)
(* Inputs.                                                                 *)
(***************************************************************************)
CostColumns == 1..4
CostValues == {0, 1}

Rows == {r \in [MODEL : {0, 1, 2}, NCOST : 0..MaxNCost, PMIN : 0..MaxPower,
                PMAX : 0..MaxPower, COST : [CostColumns -> CostValues]] :
            /\ r.PMIN <= r.PMAX
            /\ r.MODEL = 1 => 2 * r.NCOST <= Cardinality(CostColumns)}

DefaultRow == [MODEL |-> 2, NCOST |-> 3, PMIN |-> 0, PMAX |-> 1, COST |-> [c \in CostColumns |-> 1]]
SinglePointRow == [DefaultRow EXCEPT !.MODEL = 1, !.NCOST = 1]

LoadTable(T, base, demand) == [index |-> [i \in 1..T |-> base + i - 1], demand |-> demand]
DefaultLoad == LoadTable(2, 1, <<1, 1>>)

NoFactors == [reserve_factor |-> None, regulating_reserve_factor |-> None,
              flexible_ramp_factor |-> None]

Optional(S) == {None} \cup {Some(v) : v \in S}

MakeConfig(u, s, h, r, m) ==
    LET opt(k) == CASE k = "use_ptdf" -> u
                    [] k = "segments" -> s
                    [] k = "has_global_reserves" -> h
                    [] k = "resolve" -> r
                    [] OTHER -> m
    IN [k \in {x \in ConfigKeys : opt(x) # None} |-> opt(k)[1]]

InitHandle ==
    /\ builds = <<>>
    /\ pc = "nohandle"
    /\ UnitOn = [gt \in Commitments |-> None]
    /\ fixed = [gt \in Commitments |-> FALSE]
    /\ active = [c \in UpDownGroups |-> TRUE]
    /\ status = "None"
    /\ results = 0
    /\ call = NoCall
    /\ ncalls = 0
    /\ nresolves = 0

\* Prior commitment traces, with the other inputs at their defaults.
InitTraces ==
    /\ config = EmptyDict
    /\ configArg = "none"
    /\ generator_df = [g \in Generators |-> DefaultRow]
    /\ factors = NoFactors
    /\ \E T \in 1..MaxPeriods, lb \in {0, 1} :
         /\ load_df = LoadTable(T, lb, [i \in 1..T |-> 1])
         /\ \/ previous_unit_commitment_df = None
            \/ \E pb \in {0, 1}, g \in Generators, trace \in [1..T -> {0, 1}],
                  o \in [Generators -> {0, 1}] :
                 previous_unit_commitment_df =
                     Some([index |-> [i \in 1..T |-> pb + i - 1],
                           cols |-> [h \in Generators |->
                                       IF h = g THEN trace ELSE [i \in 1..T |-> o[h]]]])

\* Generator cost specifications and the segments option.
InitCosts ==
    /\ configArg = "shared"
    /\ \E s \in Optional(0..MaxSegments) : config = MakeConfig(None, s, None, None, None)
    /\ \E g \in Generators, r \in Rows, o \in {DefaultRow, SinglePointRow} :
         generator_df = [h \in Generators |-> IF h = g THEN r ELSE o]
    /\ factors = NoFactors
    /\ load_df = DefaultLoad
    /\ previous_unit_commitment_df = None

\* Reserve factors and demand.
InitReserves ==
    /\ config = EmptyDict
    /\ configArg = "none"
    /\ generator_df = [g \in Generators |-> DefaultRow]
    /\ factors \in [reserve_factor : Optional(0..MaxFactor),
                    regulating_reserve_factor : Optional(0..MaxFactor),
                    flexible_ramp_factor : Optional(0..MaxFactor)]
    /\ \E d \in [1..2 -> 0..MaxDemand] : load_df = LoadTable(2, 1, d)
    /\ previous_unit_commitment_df = None

\* Configuration dicts and the ways the caller passes them.
InitConfigs ==
    /\ configArg \in {"none", "shared", "fresh"}
    /\ IF configArg = "none" THEN config = EmptyDict
       ELSE \E u \in Optional({TRUE}), s \in Optional(1..MaxSegments),
               h \in Optional({FALSE}), r \in Optional(BOOLEAN),
               m \in Optional(MarketTypes \cup {"five_minute"}) :
              config = MakeConfig(u, s, h, r, m)
    /\ generator_df = [g \in Generators |-> DefaultRow]
    /\ factors = NoFactors
    /\ load_df = DefaultLoad
    /\ previous_unit_commitment_df = None

InitBuild ==
    /\ InitTraces \/ InitCosts \/ InitReserves \/ InitConfigs
    /\ InitHandle

NextBuild == BuildModel

SpecBuild == InitBuild /\ [][NextBuild]_vars

\* One handle, built with or without the resolve option, then solved repeatedly.
InitSolve ==
    /\ configArg \in {"none", "shared"}
    /\ IF configArg = "none" THEN config = EmptyDict
       ELSE \E r \in Optional(BOOLEAN) : config = MakeConfig(None, None, None, r, None)
    /\ generator_df = [g \in Generators |-> DefaultRow]
    /\ factors = NoFactors
    /\ \E T \in 1..2 : load_df = LoadTable(T, 1, [i \in 1..T |-> 1])
    /\ previous_unit_commitment_df = None
    /\ InitHandle

NextSolve ==
    \/ BuildModel /\ builds = <<>>
    \/ \E solver \in Solvers, resolve \in BOOLEAN : SolveCall(solver, resolve)
    \/ MipSolved
    \/ MipFailed
    \/ FixCommitment
    \/ DeactivateUpDown
    \/ LpSolved
    \/ LpFailed
    \/ Finish

SpecSolve == InitSolve /\ [][NextSolve]_vars

(***************************************************************************)
(* Properties of build_model.                                              *)
(***************************************************************************)
Built == 1..Len(builds)

\* The trace build_model reads: the supplied one, or the all-zero default.
TraceTable == IF previous_unit_commitment_df = None
              THEN DefaultPreviousCommitment(load_df)
              ELSE previous_unit_commitment_df[1]

NumPeriods == Len(load_df.index)

\* Number of trailing periods of a trace that hold its last value.
TrailingRun(col) ==
    Max({k \in 1..Len(col) : \A j \in (Len(col) - k + 1)..Len(col) : col[j] = col[Len(col)]})

Abs(n) == IF n < 0 THEN -n ELSE n

\* C3: for a supplied 0/1 trace over T periods labelled 0..T-1, the derived
\* initial state of every generator is positive iff the trace ends with 1,
\* negative iff it ends with 0, and its magnitude is the number of trailing
\* periods holding the last value.
C3_InitialStateZeroBased ==
    \A b \in Built :
        (previous_unit_commitment_df # None /\ TraceTable.index[1] = 0) =>
            \A g \in Generators :
                LET col == TraceTable.cols[g]
                    st == builds[b].initial_state[g]
                IN /\ (st > 0) <=> (col[NumPeriods] = 1)
                   /\ (st < 0) <=> (col[NumPeriods] = 0)
                   /\ Abs(st) = TrailingRun(col)

\* A build from a zero-based trace that was on and then off for one period.
C3_Witness ==
    /\ builds # <<>>
    /\ previous_unit_commitment_df # None
    /\ TraceTable.index[1] = 0
    /\ NumPeriods >= 3
    /\ \E g \in Generators :
         /\ TraceTable.cols[g][NumPeriods] = 0
         /\ TraceTable.cols[g][NumPeriods - 1] = 1
         /\ builds[1].initial_state[g] = -1
    /\ \E g \in Generators :
         /\ \A i \in 1..NumPeriods : TraceTable.cols[g][i] = 1
         /\ builds[1].initial_state[g] = NumPeriods

\* C4: for every 0/1 trace whose periods are labelled 1..T (the all-zero
\* default included), the derived initial state of every generator is nonzero.
C4_InitialStateNonzero ==
    \A b \in Built :
        (load_df.index[1] = 1 /\ TraceTable.index[1] = 1) =>
            \A g \in Generators : builds[b].initial_state[g] # 0

\* C5: each reserve factor is defaulted on its own: the factor handed on is the
\* supplied one when supplied and 0 when unset, and the spinning requirement
\* is the supplied reserve factor times the demand of each period.
C5_FactorsDefaultIndependently ==
    \A b \in Built :
        /\ \A k \in DOMAIN factors :
              builds[b].handed[k] = IF factors[k] = None THEN Some(0) ELSE factors[k]
        /\ factors.reserve_factor # None =>
              \A t \in DOMAIN load_df.demand :
                  builds[b].requirement[t] = factors.reserve_factor[1] * load_df.demand[t]

NonDecreasing(seq) == \A i \in 1..(Len(seq) - 1) : seq[i] <= seq[i + 1]

\* C6: every generator of a model that build_model returns has a cost curve
\* with at least 2 breakpoints, as many cost values, and non-decreasing powers.
C6_CurvesWellFormed ==
    \A b \in Built :
        builds[b].ok =>
            \A g \in Generators :
                LET c == builds[b].curves[1][g]
                IN /\ Len(c.points) >= 2
                   /\ Len(c.values) = Len(c.points)
                   /\ NonDecreasing(c.points)

\* C7: two successive build_model calls with identical inputs (the same config
\* mapping passed to both included) read the same option values and produce
\* the same outcome.
C7_BuildsAgree ==
    \A a \in Built, b \in Built :
        /\ builds[a].options = builds[b].options
        /\ builds[a].ok = builds[b].ok
        /\ builds[a].curves = builds[b].curves

PolynomialUnsupported(g) == g.MODEL = 2 /\ g.NCOST \notin {2, 3}
PiecewiseSinglePoint(g) == g.MODEL = 1 /\ g.NCOST = 1
Degenerate(g, segments) == ~RowRaises(g) /\ Len(Curve(g, segments).points) < 2

SomeUnsupported(df, segments) ==
    \E g \in Generators :
        PolynomialUnsupported(df[g]) \/ PiecewiseSinglePoint(df[g]) \/ Degenerate(df[g], segments)

Names(msg, field, v) == field \in DOMAIN msg /\ msg[field] = v

\* The error is the one an offending generator raises and names its count.
ErrorNamesCount(out, df) ==
    LET e == out.error[1]
        seg == out.options.segments
    IN \E g \in Generators :
         \/ /\ PolynomialUnsupported(df[g])
            /\ e.type = "NotImplementedError"
            /\ Names(e.msg, "ncost", df[g].NCOST)
         \/ /\ PiecewiseSinglePoint(df[g])
            /\ e.type = "AssertionError"
            /\ Names(e.msg, "generator", g)
            /\ Names(e.msg, "ncost", df[g].NCOST)
         \/ /\ Degenerate(df[g], seg)
            /\ e.type = "AssertionError"
            /\ Names(e.msg, "genco", g)
            /\ Names(e.msg, "points", Curve(df[g], seg).points)

\* The error names the generator that raised it.
ErrorNamesGenerator(out) ==
    LET e == out.error[1]
    IN \E g \in Generators : Names(e.msg, "generator", g) \/ Names(e.msg, "genco", g)

\* C9 as stated: a build with an unsupported cost specification fails, with
\* the NotImplemented or validation error of an offending generator, and the
\* error names both that generator and the offending count.
C9_ErrorNamesGeneratorAndCount ==
    \A b \in Built :
        SomeUnsupported(generator_df, builds[b].options.segments) =>
            /\ ~builds[b].ok
            /\ builds[b].curves = None
            /\ ErrorNamesCount(builds[b], generator_df)
            /\ ErrorNamesGenerator(builds[b])

\* C9 amended: a build with an unsupported cost specification fails with the
\* error of an offending generator; a NotImplemented error names the offending
\* coefficient count only, a validation error names the generator together
\* with its NCOST or its breakpoint list. No handle is returned.
C9_UnsupportedCostFails ==
    \A b \in Built :
        SomeUnsupported(generator_df, builds[b].options.segments) =>
            /\ ~builds[b].ok
            /\ builds[b].curves = None
            /\ ErrorNamesCount(builds[b], generator_df)
            /\ builds[b].error[1].type = "AssertionError" <=> ErrorNamesGenerator(builds[b])
            /\ (\A a \in Built : ~builds[a].ok) => pc = "nohandle"

\* A failed build for a polynomial cost with a bad coefficient count, and
\* (in another run) one for a degenerate quadratic curve.
C9_Witness ==
    /\ builds # <<>>
    /\ ~builds[1].ok
    /\ pc = "nohandle"
    /\ builds[1].error[1].type = "NotImplementedError"
    /\ \E g \in Generators : PolynomialUnsupported(generator_df[g])

(***************************************************************************)
(* Properties of PSSTModel.solve.                                          *)
(***************************************************************************)
AllFixed == \A gt \in Commitments : fixed[gt]
NoneFixed == \A gt \in Commitments : ~fixed[gt]
AllActive == \A c \in UpDownGroups : active[c]
NoneActive == \A c \in UpDownGroups : ~active[c]

\* The running call is past its fixing and deactivation steps, or has
\* returned after them.
ResolvePhaseDone ==
    \/ pc = "lp"
    \/ pc = "finish" /\ call.resolve
    \/ pc = "idle" /\ call.returned /\ call.resolve

\* C1: when the model is re-submitted as a continuous program, and from then
\* on to the successful return of the call, every commitment variable is fixed
\* at exactly its value in the call's MIP solution and the four min-up/down
\* groups are inactive; the re-submission comes after the one successful MIP
\* submission.
C1_ResolveFixesCommitment ==
    ResolvePhaseDone =>
        /\ call.mip = 1 /\ call.mip_ok
        /\ pc = "lp" => call.lp = 0
        /\ \A gt \in Commitments :
              fixed[gt] /\ UnitOn[gt] = Some(call.mip_solution[1][gt])
        /\ NoneActive

\* A call with a resolve phase has returned; its MIP solution has a committed
\* and an uncommitted unit.
C1_Witness ==
    /\ pc = "idle" /\ call.returned /\ call.resolve
    /\ \E gt \in Commitments : UnitOn[gt] = Some([whole |-> 1, frac |-> 0])
    /\ \E gt \in Commitments : UnitOn[gt] = Some([whole |-> 0, frac |-> 0])

\* C2: on a handle built with configuration option resolve = true, a solve()
\* call that returns has performed the fix-and-resolve phase, whatever its own
\* resolve argument and solver.
C2_ConfigResolveForcesResolve ==
    (builds # <<>> /\ builds[1].options.resolve /\ pc = "idle" /\ call.returned) =>
        /\ call.lp = 1
        /\ AllFixed
        /\ NoneActive

\* No retry and no early status: what holds in every state of a call.
SubmissionsOnce ==
    /\ call.mip <= 1
    /\ call.lp <= 1
    /\ call.lp = 1 => call.mip_ok
    /\ call.raised =>
          /\ pc = "idle"
          /\ ~call.returned
          /\ ~call.mip_ok => call.lp = 0
          /\ ~(call.mip_ok /\ call.lp_ok)
    /\ call.returned => status = "solved"

\* The status is assigned only by the last step of a call whose submissions
\* all succeeded.
StatusSetAtEnd ==
    status' # status =>
        /\ status' = "solved"
        /\ pc = "finish" /\ pc' = "idle"
        /\ call.mip_ok
        /\ call.resolve => call.lp_ok
        /\ ~call.raised

\* C8: a solve() call submits the model at most once per phase, a failed
\* submission ends the call with no further submission, and the status becomes
\* 'solved' only at the end of a call whose submissions all succeeded.
C8_NoRetry == []SubmissionsOnce /\ [][StatusSetAtEnd]_vars

\* The continuous re-submission of the first call failed: the call is over,
\* nothing was submitted again and the status was never set.
C8_Witness ==
    /\ pc = "idle" /\ call.raised /\ call.mip_ok /\ call.lp = 1
    /\ status = "None"
    /\ ncalls = 1

PlainCall == ~call.resolve_arg /\ call.solver # "xpress"

\* What holds in every state of a handle's life.
ResolveOnlyOnRequest ==
    /\ pc \in {"fix", "deactivate", "lp"} => ~PlainCall
    /\ (ncalls > 0 /\ PlainCall) =>
          /\ Some(fixed) = call.fixed_at_entry
          /\ Some(active) = call.active_at_entry
          /\ call.lp = 0
          /\ pc = "idle" => call.mip = 1
    /\ nresolves = 0 => NoneFixed /\ AllActive
    /\ nresolves > 0 => AllFixed
    /\ (nresolves > 1 \/ (nresolves = 1 /\ pc # "deactivate")) => NoneActive

\* The flags change only in the resolve phase of a call that asked for it (or
\* uses xpress), and never change back.
FlagsOneWay ==
    /\ (fixed' # fixed \/ active' # active) =>
          /\ pc \in {"fix", "deactivate"}
          /\ call.resolve_arg \/ call.solver = "xpress"
    /\ AllFixed => AllFixed'
    /\ NoneActive => NoneActive'

\* C10: over any sequence of solve() calls on a handle, variables are fixed and
\* the min-up/down groups deactivated only by a call with resolve = true or
\* solver 'xpress'; a call with neither submits once and leaves every flag as
\* it was; before the first resolve nothing is fixed and every group is
\* active, afterwards everything stays fixed and inactive.
C10_ResolveOneWay == []ResolveOnlyOnRequest /\ [][FlagsOneWay]_vars

\* A second, plain call has returned on a handle whose first call ran the
\* resolve phase: the flags are as the first call left them.
C10_Witness ==
    /\ ncalls = 2 /\ pc = "idle" /\ call.returned /\ PlainCall
    /\ nresolves = 1
    /\ AllFixed /\ NoneActive

====
